---- MODULE Spec2Model ----
(***************************************************************************)
(* Graph-RAG hybrid retrieval (src/api/routers/rag.py) with the two        *)
(* semantic providers (src/providers/supermemory.py, src/providers/mem0.py)*)
(* and the graph client (src/graph/neo4j_client.py); the memory lifecycle  *)
(* (src/api/server.py, src/core/memory-orchestrator), the audit trail      *)
(* (src/api/routers/audit.py), the ingestion queue                         *)
(* (src/api/routers/ingest.py) and the metrics collector                   *)
(* (src/observers/metrics.py).                                             *)
(*                                                                         *)
(* Scores are exact rationals in units of 1/Scale (Scale = 300): 1.0 is    *)
(* 300, the rank step 0.1 is 30, the custody boost 0.2 is 60, the          *)
(* graph-only base 0.3 is 90.  Every product the code forms with the       *)
(* weights 0.6 and 0.4 is a whole number of units for the inputs drawn     *)
(* here, so the integer arithmetic below loses nothing.                    *)
(***************************************************************************)
EXTENDS Integers, Sequences, FiniteSets, TLC

VARIABLES
    request,           \* RAGQuery of the request being served
    driver,            \* Neo4jClient.driver is set (TRUE) or None (FALSE)
    silent,            \* backends that accept a call and never answer it
    pc,                \* position of the hybrid_search coroutine
    semPc,             \* position of semantic_task
    graphPc,           \* position of graph_task
    results,           \* local `results` of semantic_search
    semantic_results,  \* result of semantic_task
    graph_results,     \* result of graph_task
    result_map,        \* dict of hybrid_search, in insertion order
    sorted_results,    \* sorted_results of hybrid_search
    provenance,        \* provenance of hybrid_search
    calls,             \* calls issued to the backends, in order
    response,          \* what the /rag/hybrid route hands to the caller
    backend,           \* what the backends hold, where a specification fixes it
    previous,          \* response to the same request served before this one
    parked,            \* locals of a second request the event loop is not running
    tombstone_policy,  \* PolicyEngine.tombstone_policy
    write_result,      \* what MemoryAggregator.write_memory returned
    forget_result,     \* what the caller of forget_memory got
    tombstone,         \* what PolicyEngine.create_tombstone returned or raised
    merkle_log,        \* AuditTrail.merkle_log
    audit_events,      \* the module's list of stored events
    ingest_queue,      \* ingest_queue: the items waiting, oldest first
    ingest_stats,      \* ingest_stats
    running,           \* IngestionPipeline.running
    background_tasks,  \* start_daemon tasks added to responses and not run yet
    processors,        \* the _process_queue tasks created, with their position
    submitted,         \* items put on the queue so far
    handled,           \* items taken by _process_item, in order
    start_calls,       \* calls of start_daemon so far
    metrics,           \* MetricsCollector.metrics: name -> data points, oldest first
    counters,          \* MetricsCollector.counters
    gauges,            \* MetricsCollector.gauges
    histograms,        \* MetricsCollector.histograms
    timed_calls        \* calls of record_latency and set_gauge so far

\* the memory lifecycle: write, forget, tombstone
lifecycle == <<tombstone_policy, write_result, forget_result, tombstone>>

\* the audit trail
audit == <<merkle_log, audit_events>>

\* the ingestion pipeline
ingest == <<ingest_queue, ingest_stats, running, background_tasks, processors,
            submitted, handled, start_calls>>

\* the metrics collector
collector == <<metrics, counters, gauges, histograms, timed_calls>>

\* the services next to the retrieval engine
services == <<lifecycle, audit, ingest, collector>>

\* the retrieval engine and its backends
rag == <<request, driver, silent, pc, semPc, graphPc, results,
         semantic_results, graph_results, result_map, sorted_results,
         provenance, calls, response, backend, previous, parked>>

vars == <<rag, services>>

\* what a step of one service leaves alone
notLifecycle == <<rag, audit, ingest, collector>>
notAudit == <<rag, lifecycle, ingest, collector>>
notIngest == <<rag, lifecycle, audit, collector>>
notCollector == <<rag, lifecycle, audit, ingest>>

\* what lies outside the request being run
world == <<backend, previous, parked, services>>

----------------------------------------------------------------------------
(* Bounds of the model *)

\* most records the three backend answers of one request hold together
MaxRecords == 3
\* most rows of one Cypher answer
MaxGraphRows == 2
\* largest limit a request carries; the smallest is -1
MaxLimit == 2
\* largest max_graph_depth of the request-fields specification
MaxDepthAsked == 4

\* records and rows held by the backends of the repeated-request specification
MaxStored == 2

\* records and rows held by the backends of the two-request specification
MaxShared == 2

\* audit events logged on one AuditTrail
MaxEvents == 3

\* items submitted for ingestion
MaxItems == 3

\* calls of start_daemon
MaxStartCalls == 3

\* calls of record_latency and set_gauge
MaxTimedCalls == 2
\* largest limit of the rank-score specification, whose requests carry
\* 1..MaxRankLimit (RAGQuery.limit defaults to 10)
MaxRankLimit == 6

(* Program constants, in units of 1/Scale *)
Scale == 300
RankStep == 30
SemanticWeight == 6
GraphWeight == 4
WeightDenominator == 10
CustodyBoost == 60
GraphOnlyBase == 90
DefaultScore == 150
DefaultPathLength == 1
HybridDepth == 3

Contents == {"memo", "Memo", " memo"}
Entities == {"", "case-1"}
NoEntity == "None"

\* all sequences over S of length at most n
SeqsUpTo(S, n) == UNION {[1..k -> S] : k \in 0..n}

----------------------------------------------------------------------------
(* Python helpers *)

\* dict.get(field, default)
Get(d, field, default) == IF field \in DOMAIN d THEN d[field] ELSE default

\* a JSON item of a backend answer that is no object
Junk == [malformed |-> TRUE]
IsDict(r) == "malformed" \notin DOMAIN r
AllDicts(rs) == \A i \in 1..Len(rs) : IsDict(rs[i])

\* seq[:n]
Slice(seq, n) ==
    IF n >= 0
    THEN SubSeq(seq, 1, IF n < Len(seq) THEN n ELSE Len(seq))
    ELSE SubSeq(seq, 1, Len(seq) + n)

\* builtin hash() on the strings of the model: equal strings hash equal, and
\* the strings drawn here have pairwise different 64-bit hash values
StrHash == [c \in Contents \cup {""} |->
              CASE c = "memo"  -> 7301
                [] c = "Memo"  -> 2954
                [] c = " memo" -> 6120
                [] OTHER       -> 0]

\* the same key for contents that differ by case or surrounding blanks
NormalizedContentHash(r) == IF Get(r, "content", "") = "" THEN StrHash[""] ELSE StrHash["memo"]

\* hash(result.get('content', ''))
ContentHash(r) == StrHash[Get(r, "content", "")]

----------------------------------------------------------------------------
(* semantic_search: rank scores *)

\* 1.0 - (i * 0.1), i counted from 0
SemanticScore(i) == Scale - i * RankStep

AddSemanticScores(rs) ==
    [i \in 1..Len(rs) |->
        [semantic_score |-> SemanticScore(i - 1), search_type |-> "semantic"] @@ rs[i]]

----------------------------------------------------------------------------
(* graph_search: relevance scores *)

\* a score that gets the custody boost whatever `custody` holds
GraphScoreAlwaysBoosted(path_length, custody) ==
    (Scale \div (path_length + 1)) + CustodyBoost

\* 1.0 / (path_length + 1), plus 0.2 when custody is non-empty
GraphScore(path_length, custody) ==
    (Scale \div (path_length + 1)) + (IF custody > 0 THEN CustodyBoost ELSE 0)

\* one row of the Cypher answer turned into a graph result
GraphResult(row) ==
    LET path_length == Get(row, "path_length", DefaultPathLength)
        custody     == Get(row, "custody", 0)
    IN  [graph_score    |-> GraphScore(path_length, custody),
         path_length    |-> path_length,
         custody_events |-> custody,
         search_type    |-> "graph"] @@ row.m

GraphResults(rows) == [i \in 1..Len(rows) |-> GraphResult(rows[i])]

----------------------------------------------------------------------------
(* hybrid_search: merge, rank, truncate *)

\* score * 0.6 and score * 0.4
Weighted(score, weight) == (score * weight) \div WeightDenominator

HasKey(map, k) == \E i \in 1..Len(map) : map[i].key = k
KeyIndex(map, k) == CHOOSE i \in 1..Len(map) : map[i].key = k

\* a semantic loop in which a later record of the same content replaces the
\* entry of the earlier one
ProcessSemanticLastWins(map, result) ==
    LET content_hash == ContentHash(result)
        semantic     == Get(result, "semantic_score", DefaultScore)
        entry        == [hybrid_score |-> Weighted(semantic, SemanticWeight),
                         signals      |-> [semantic |-> semantic]] @@ result
    IN  IF HasKey(map, content_hash)
        THEN [map EXCEPT ![KeyIndex(map, content_hash)].value = entry]
        ELSE Append(map, [key |-> content_hash, value |-> entry])

\* lines 133-139
ProcessSemantic(map, result) ==
    LET content_hash == ContentHash(result)
        semantic     == Get(result, "semantic_score", DefaultScore)
    IN  IF HasKey(map, content_hash)
        THEN map
        ELSE Append(map, [key   |-> content_hash,
                          value |-> [hybrid_score |-> Weighted(semantic, SemanticWeight),
                                     signals      |-> [semantic |-> semantic]] @@ result])

\* lines 143-158
BlendGraph(map, result) ==
    LET content_hash == ContentHash(result)
        graph        == Get(result, "graph_score", DefaultScore)
        graph_boost  == Weighted(graph, GraphWeight)
    IN  IF HasKey(map, content_hash)
        THEN LET i   == KeyIndex(map, content_hash)
                 old == map[i].value
             IN  [map EXCEPT ![i].value =
                    [hybrid_score   |-> old.hybrid_score + graph_boost,
                     signals        |-> [graph |-> graph] @@ old.signals,
                     path_length    |-> result.path_length,
                     custody_events |-> Get(result, "custody_events", 0)] @@ old]
        ELSE Append(map, [key   |-> content_hash,
                          value |-> [hybrid_score |-> graph_boost + GraphOnlyBase,
                                     signals      |-> [graph |-> graph]] @@ result])

RECURSIVE FoldSemantic(_, _)
FoldSemantic(map, rs) ==
    IF rs = <<>> THEN map ELSE FoldSemantic(ProcessSemantic(map, Head(rs)), Tail(rs))

RECURSIVE FoldGraph(_, _)
FoldGraph(map, rs) ==
    IF rs = <<>> THEN map ELSE FoldGraph(BlendGraph(map, Head(rs)), Tail(rs))

\* result_map after both loops, lines 129-158
\* a merge that takes the lists in the order their searches were started
MergedMapInCallOrder(sem, graph) ==
    LET CallsTo(to) == {i \in 1..Len(calls) : calls[i].to = to}
    IN  IF /\ CallsTo("neo4j") # {} /\ CallsTo("supermemory") # {}
           /\ \A i \in CallsTo("neo4j"), j \in CallsTo("supermemory") : i < j
        THEN FoldSemantic(FoldGraph(<<>>, graph), sem)
        ELSE FoldGraph(FoldSemantic(<<>>, sem), graph)

\* a merge into a map kept between requests
MergedMapOnSharedMap(sem, graph) == FoldGraph(FoldSemantic(parked.result_map, sem), graph)

MergedMap(sem, graph) == FoldGraph(FoldSemantic(<<>>, sem), graph)

Values(map) == [i \in 1..Len(map) |-> map[i].value]

\* an insertion that puts an entry before the entries of equal score
RECURSIVE InsertBeforeTies(_, _)
InsertBeforeTies(sorted, e) ==
    IF sorted = <<>> THEN <<e>>
    ELSE IF Head(sorted).hybrid_score > e.hybrid_score
         THEN <<Head(sorted)>> \o InsertBeforeTies(Tail(sorted), e)
         ELSE <<e>> \o sorted

RECURSIVE InsertByScore(_, _)
InsertByScore(sorted, e) ==
    IF sorted = <<>> THEN <<e>>
    ELSE IF Head(sorted).hybrid_score >= e.hybrid_score
         THEN <<Head(sorted)>> \o InsertByScore(Tail(sorted), e)
         ELSE <<e>> \o sorted

RECURSIVE SortFrom(_, _)
SortFrom(sorted, rest) ==
    IF rest = <<>> THEN sorted ELSE SortFrom(InsertByScore(sorted, Head(rest)), Tail(rest))

\* the merged values left in insertion order
Unsorted(seq) == seq

\* sorted(values, key=hybrid_score, reverse=True): stable, descending
SortedByScore(seq) == SortFrom(<<>>, seq)

\* a ranking that ignores the limit
Untruncated(map, limit) == SortedByScore(Values(map))

\* lines 161-165
Ranked(map, limit) == Slice(SortedByScore(Values(map)), limit)

RECURSIVE SumScores(_)
SumScores(rs) == IF rs = <<>> THEN 0 ELSE Head(rs).hybrid_score + SumScores(Tail(rs))

\* np.mean(...) without the guard for the empty list
MeanUnguarded(rs) == [num |-> SumScores(rs), den |-> Len(rs)]

\* a mean that divides the sum by the limit asked for
MeanOverLimit(rs) ==
    IF rs = <<>> THEN [num |-> 0, den |-> 1] ELSE [num |-> SumScores(rs), den |-> request.limit]

\* np.mean(...) if sorted_results else 0, as the fraction num/den
AvgConfidence(rs) ==
    IF rs = <<>> THEN [num |-> 0, den |-> 1] ELSE [num |-> SumScores(rs), den |-> Len(rs)]

----------------------------------------------------------------------------
(* What the backends can answer *)

\* a record of a semantic provider
ProviderRecords == [content : Contents]

\* path lengths drawn for the rows of the entity query, whose length(path)
\* is 1..depth: the shortest and the longest
PathLengths == {1, HybridDepth}

\* number of custody events collected for a row
CustodyCounts == {0, 1}

\* a row of the Cypher answer; the query without entity returns no
\* path_length column
GraphRows(entity) ==
    IF entity \in {NoEntity, ""}
    THEN [m : [content : Contents], custody : CustodyCounts]
    ELSE [m : [content : Contents], custody : CustodyCounts, path_length : PathLengths]

\* records received so far in this request
Received == Len(results) + Len(graph_results)

\* answers of a semantic provider: records, or a list with an item that is
\* no object
ProviderAnswers == SeqsUpTo(ProviderRecords, MaxRecords - Received) \cup {<<Junk>>}

\* answers of the rank-score specification: at most the number of records
\* asked for
RankAnswers(asked) == {[i \in 1..k |-> [content |-> "memo"]] : k \in 0..asked}

\* the smaller of two numbers
Min(a, b) == IF a < b THEN a ELSE b

CypherAnswers ==
    SeqsUpTo(GraphRows(request.entity), Min(MaxGraphRows, MaxRecords - Received))
        \cup {<<Junk>>}

\* rows of the provenance query
TrailAnswers == {<<>>, <<[trail_nodes |-> "case-1"]>>}

----------------------------------------------------------------------------
(* The services at construction *)

\* nothing returned yet
NoResult == [status |-> "none"]

\* _default_config()['tombstone_policy'], used when policies/memory.yaml
\* cannot be read
DefaultTombstonePolicy == [enabled |-> TRUE, require_reason |-> TRUE]

LifecycleIdle ==
    /\ tombstone_policy = DefaultTombstonePolicy
    /\ write_result = NoResult
    /\ forget_result = NoResult
    /\ tombstone = NoResult

\* AuditTrail.__init__ and the empty module list
AuditIdle ==
    /\ merkle_log = <<>>
    /\ audit_events = <<>>

\* the module globals of ingest.py and IngestionPipeline.__init__
IngestIdle ==
    /\ ingest_queue = <<>>
    /\ ingest_stats = [queued |-> 0, processing |-> 0, completed |-> 0, failed |-> 0,
                       processing_times |-> 0]
    /\ running = FALSE
    /\ background_tasks = 0
    /\ processors = <<>>
    /\ submitted = 0
    /\ handled = <<>>
    /\ start_calls = 0

\* names of the time series and of the histogram the model writes to
SeriesNames == {"memory_write_latency", "ingestion_queue_depth", "memory_operations_total"}
HistogramNames == {"memory_write_latency_histogram"}
CounterNames == {"memory_operations"}
GaugeNames == {"ingestion_queue_depth"}

\* MetricsCollector.__init__: the four defaultdicts, an absent key read as
\* its default
CollectorIdle ==
    /\ metrics = [n \in SeriesNames |-> <<>>]
    /\ counters = [n \in CounterNames |-> 0]
    /\ gauges = [n \in GaugeNames |-> 0]
    /\ histograms = [n \in HistogramNames |-> <<>>]
    /\ timed_calls = 0

ServicesIdle ==
    /\ LifecycleIdle
    /\ AuditIdle
    /\ IngestIdle
    /\ CollectorIdle

----------------------------------------------------------------------------
(* The request *)

\* the backends answer freely: no store is fixed
NoStore == [supermemory |-> <<>>, mem0 |-> <<>>, rows |-> <<>>, trail |-> <<>>]

\* no earlier response
NoResponse == [status |-> "none"]

\* no second request
NoContext == [pc |-> "absent", result_map |-> <<>>]

Requests ==
    [query : {"memo"}, entity : Entities \cup {NoEntity}, limit : (0 - 1)..MaxLimit,
     include_provenance : BOOLEAN]

\* a test for None alone, which lets the empty string through
NotNone(entity) == entity # NoEntity

\* `if entity`, `and entity`
Truthy(entity) == entity \notin {NoEntity, ""}

Init ==
    /\ request \in Requests
    /\ driver \in BOOLEAN
    /\ silent = {}
    /\ pc = "start"
    /\ semPc = "none"
    /\ graphPc = "none"
    /\ results = <<>>
    /\ semantic_results = <<>>
    /\ graph_results = <<>>
    /\ result_map = <<>>
    /\ sorted_results = <<>>
    /\ provenance = <<>>
    /\ calls = <<>>
    /\ response = [status |-> "pending"]
    /\ backend = NoStore
    /\ previous = NoResponse
    /\ parked = NoContext
    /\ ServicesIdle

\* the coroutine of hybrid_search is suspended at an await or has ended, so
\* the event loop may run a task
LoopYielded == pc \in {"await_semantic", "await_graph", "await_provenance", "done"}

\* requests.post and requests.get are synchronous: while semantic_task is in
\* one of them the loop thread runs nothing else
LoopBlocked == semPc \in {"supermemory_wait", "mem0_wait"}

\* line 121
CreateSemanticTask ==
    /\ pc = "start"
    /\ semPc' = "scheduled"
    /\ pc' = "create_graph_task"
    /\ UNCHANGED <<world, request, driver, silent, graphPc, results, semantic_results,
                   graph_results, result_map, sorted_results, provenance, calls, response>>

\* line 122
CreateGraphTask ==
    /\ pc = "create_graph_task"
    /\ graphPc' = "scheduled"
    /\ pc' = "await_semantic"
    /\ UNCHANGED <<world, request, driver, silent, semPc, results, semantic_results,
                   graph_results, result_map, sorted_results, provenance, calls, response>>

----------------------------------------------------------------------------
(* semantic_task: semantic_search(query, limit * 2) *)

SemanticLimit == request.limit * 2

\* lines 54-58: a list item that is no dict makes the item assignment raise
FinishSemantic(rs) ==
    IF AllDicts(rs)
    THEN /\ semantic_results' = AddSemanticScores(rs)
         /\ semPc' = "done"
    ELSE /\ semantic_results' = semantic_results
         /\ semPc' = "failed"

\* line 46, SuperMemoryProvider.search up to requests.post
SemanticStart ==
    /\ semPc = "scheduled"
    /\ LoopYielded
    /\ semPc' = "supermemory_wait"
    /\ calls' = Append(calls, [to |-> "supermemory", limit |-> SemanticLimit])
    /\ UNCHANGED <<world, request, driver, silent, pc, graphPc, results, semantic_results,
                   graph_results, result_map, sorted_results, provenance, response>>

\* a fallback that asks Mem0 for the whole limit whenever the primary
\* answer is not empty-handed
FallbackForWholeLimit(answer) ==
    /\ results' = answer
    /\ IF Len(answer) < SemanticLimit
       THEN /\ semPc' = "mem0_wait"
            /\ calls' = Append(calls, [to |-> "mem0", limit |-> SemanticLimit])
            /\ semantic_results' = semantic_results
       ELSE /\ FinishSemantic(answer)
            /\ calls' = calls

\* SuperMemoryProvider.search returns `answer`, or [] after an exception
\* (lines 66-68); then lines 49-58
SupermemoryReturns(answer) ==
    /\ results' = answer
    /\ IF Len(answer) < SemanticLimit
       THEN /\ semPc' = "mem0_wait"
            /\ calls' = Append(calls, [to |-> "mem0", limit |-> SemanticLimit - Len(answer)])
            /\ semantic_results' = semantic_results
       ELSE /\ FinishSemantic(answer)
            /\ calls' = calls

SupermemoryAnswer(answers) ==
    /\ semPc = "supermemory_wait"
    /\ "supermemory" \notin silent
    /\ \E answer \in answers : SupermemoryReturns(answer)
    /\ UNCHANGED <<world, request, driver, silent, pc, graphPc, graph_results, result_map,
                   sorted_results, provenance, response>>

\* Mem0Provider.search returns `answer`, or [] after an exception (lines
\* 186-188 of mem0.py, 85-87 of the file); then lines 51-58
Mem0Answer(answers) ==
    /\ semPc = "mem0_wait"
    /\ "mem0" \notin silent
    /\ \E answer \in answers :
          /\ results' = results \o answer
          /\ FinishSemantic(results \o answer)
    /\ UNCHANGED <<world, request, driver, silent, pc, graphPc, graph_results, result_map,
                   sorted_results, provenance, calls, response>>

----------------------------------------------------------------------------
(* graph_task: graph_search(query, entity, 3) *)

\* a graph search that sends its query whether or not a driver exists
GraphStartWithoutGuard ==
    /\ graphPc = "scheduled"
    /\ LoopYielded
    /\ ~LoopBlocked
    /\ graphPc' = "cypher_wait"
    /\ calls' = Append(calls, [to |-> "neo4j", query |-> "search",
                               entity |-> request.entity, depth |-> HybridDepth])
    /\ UNCHANGED <<world, request, driver, silent, pc, semPc, results, semantic_results,
                   graph_results, result_map, sorted_results, provenance, response>>

\* lines 62-93, Neo4jClient.cypher up to run_in_executor
GraphStart ==
    /\ graphPc = "scheduled"
    /\ LoopYielded
    /\ ~LoopBlocked
    /\ IF ~driver
       THEN /\ graphPc' = "done"
            /\ calls' = calls
       ELSE /\ graphPc' = "cypher_wait"
            /\ calls' = Append(calls, [to |-> "neo4j", query |-> "search",
                                       entity |-> request.entity, depth |-> HybridDepth])
    /\ UNCHANGED <<world, request, driver, silent, pc, semPc, results, semantic_results,
                   graph_results, result_map, sorted_results, provenance, response>>

\* Neo4jClient.cypher returns {'records': rows}, or {'error': ...} after an
\* exception (lines 43-45), which graph_search reads as no records; then
\* lines 94-114
CypherAnswer(answers) ==
    /\ graphPc = "cypher_wait"
    /\ "neo4j" \notin silent
    /\ ~LoopBlocked
    /\ \E rows \in answers :
          IF AllDicts(rows)
          THEN /\ graph_results' = GraphResults(rows)
               /\ graphPc' = "done"
          ELSE /\ graph_results' = graph_results
               /\ graphPc' = "failed"
    /\ UNCHANGED <<world, request, driver, silent, pc, semPc, results, semantic_results,
                   result_map, sorted_results, provenance, calls, response>>

----------------------------------------------------------------------------
(* hybrid_search after the two tasks are created, and the /rag/hybrid route *)

\* an exception leaves hybrid_search; the route turns it into HTTP 500
\* (lines 250-251)
Raise ==
    /\ response' = [status |-> "error", code |-> 500]
    /\ pc' = "done"

\* line 124
AwaitSemantic ==
    /\ pc = "await_semantic"
    /\ semPc \in {"done", "failed"}
    /\ IF semPc = "done"
       THEN pc' = "await_graph" /\ response' = response
       ELSE Raise
    /\ UNCHANGED <<world, request, driver, silent, semPc, graphPc, results, semantic_results,
                   graph_results, result_map, sorted_results, provenance, calls>>

\* the join waits for semantic_task alone
JoinOnSemanticOnly == TRUE

\* graph_task has finished, with a result or an exception
GraphTaskEnded == graphPc \in {"done", "failed"}

\* line 125
AwaitGraph ==
    /\ pc = "await_graph"
    /\ GraphTaskEnded
    /\ IF graphPc = "failed"
       THEN Raise
       ELSE pc' = "merge" /\ response' = response
    /\ UNCHANGED <<world, request, driver, silent, semPc, graphPc, results, semantic_results,
                   graph_results, result_map, sorted_results, provenance, calls>>

\* lines 173-189
Respond(ranked, trail) ==
    /\ response' =
          [status            |-> "ok",
           results           |-> ranked,
           provenance        |-> trail,
           confidence_scores |-> [semantic_weight |-> SemanticWeight,
                                  graph_weight    |-> GraphWeight,
                                  avg_confidence  |-> AvgConfidence(ranked)],
           result_counts     |-> [semantic |-> Len(semantic_results),
                                  graph    |-> Len(graph_results),
                                  hybrid   |-> Len(ranked)]]
    /\ pc' = "done"

\* lines 127-171 up to the await of the provenance query, and on to line 189
\* when there is nothing to await
Merge ==
    /\ pc = "merge"
    /\ LET map    == MergedMap(semantic_results, graph_results)
           ranked == Ranked(map, request.limit)
       IN  /\ result_map' = map
           /\ sorted_results' = ranked
           /\ IF request.include_provenance /\ Truthy(request.entity)
              THEN IF driver
                   THEN /\ calls' = Append(calls, [to |-> "neo4j", query |-> "provenance",
                                                   entity |-> request.entity])
                        /\ pc' = "await_provenance"
                        /\ UNCHANGED <<provenance, response>>
                   ELSE \* cypher returns {'error': 'No Neo4j connection'}
                        /\ provenance' = <<>>
                        /\ calls' = calls
                        /\ Respond(ranked, <<>>)
              ELSE /\ provenance' = <<>>
                   /\ calls' = calls
                   /\ Respond(ranked, <<>>)
    /\ UNCHANGED <<world, request, driver, silent, semPc, graphPc, results, semantic_results,
                   graph_results>>

\* a provenance step that turns a query without rows into an exception
ProvenanceAnswerEmptyIsError(answers) ==
    /\ pc = "await_provenance"
    /\ "neo4j" \notin silent
    /\ \E trail \in answers :
          /\ provenance' = trail
          /\ IF trail = <<>> THEN Raise ELSE Respond(sorted_results, trail)
    /\ UNCHANGED <<world, request, driver, silent, semPc, graphPc, results, semantic_results,
                   graph_results, result_map, sorted_results, calls>>

\* _get_provenance_trail returns its rows, or {'error': ...} read as no
\* records; then lines 171-189
ProvenanceAnswer(answers) ==
    /\ pc = "await_provenance"
    /\ "neo4j" \notin silent
    /\ \E trail \in answers :
          /\ provenance' = trail
          /\ Respond(sorted_results, trail)
    /\ UNCHANGED <<world, request, driver, silent, semPc, graphPc, results, semantic_results,
                   graph_results, result_map, sorted_results, calls>>

\* the backends that hold a call of this request that is not answered yet
Outstanding ==
    (IF semPc = "supermemory_wait" THEN {"supermemory"} ELSE {})
        \cup (IF semPc = "mem0_wait" THEN {"mem0"} ELSE {})
        \cup (IF graphPc = "cypher_wait" \/ pc = "await_provenance" THEN {"neo4j"} ELSE {})

\* a backend accepts the call and never answers it; no call of
\* supermemory.py, mem0.py or neo4j_client.py carries a timeout
BackendGoesSilent ==
    /\ \E b \in Outstanding \ silent : silent' = silent \cup {b}
    /\ UNCHANGED <<world, request, driver, pc, semPc, graphPc, results, semantic_results,
                   graph_results, result_map, sorted_results, provenance, calls, response>>

Next ==
    \/ CreateSemanticTask
    \/ CreateGraphTask
    \/ SemanticStart
    \/ SupermemoryAnswer(ProviderAnswers)
    \/ Mem0Answer(ProviderAnswers)
    \/ GraphStart
    \/ CypherAnswer(CypherAnswers)
    \/ AwaitSemantic
    \/ AwaitGraph
    \/ Merge
    \/ ProvenanceAnswer(TrailAnswers)
    \/ BackendGoesSilent

Spec == Init /\ [][Next]_vars

(* The rank-score specification: requests with limits up to MaxRankLimit,
   providers that return at most what was asked, an empty graph *)

InitRank ==
    /\ request \in [query : {"memo"}, entity : {"case-1"}, limit : 1..MaxRankLimit,
                    include_provenance : BOOLEAN]
    /\ driver \in BOOLEAN
    /\ silent = {}
    /\ pc = "start"
    /\ semPc = "none"
    /\ graphPc = "none"
    /\ results = <<>>
    /\ semantic_results = <<>>
    /\ graph_results = <<>>
    /\ result_map = <<>>
    /\ sorted_results = <<>>
    /\ provenance = <<>>
    /\ calls = <<>>
    /\ response = [status |-> "pending"]
    /\ backend = NoStore
    /\ previous = NoResponse
    /\ parked = NoContext
    /\ ServicesIdle

NextRank ==
    \/ CreateSemanticTask
    \/ CreateGraphTask
    \/ SemanticStart
    \/ SupermemoryAnswer(RankAnswers(SemanticLimit))
    \/ Mem0Answer(RankAnswers(SemanticLimit - Len(results)))
    \/ GraphStart
    \/ CypherAnswer({<<>>})
    \/ AwaitSemantic
    \/ AwaitGraph
    \/ Merge
    \/ ProvenanceAnswer(TrailAnswers)
    \/ BackendGoesSilent

RankSpec == InitRank /\ [][NextRank]_vars

(* The request-fields specification: requests that also carry the fields of
   RAGQuery the /rag/hybrid route does not hand on or check, served by the
   steps of the rank-score specification *)

InitRequest ==
    /\ request \in [query : {"", "memo"}, entity : {"case-1"}, limit : 1..2,
                    include_provenance : BOOLEAN, max_graph_depth : 1..MaxDepthAsked]
    /\ driver \in BOOLEAN
    /\ silent = {}
    /\ pc = "start"
    /\ semPc = "none"
    /\ graphPc = "none"
    /\ results = <<>>
    /\ semantic_results = <<>>
    /\ graph_results = <<>>
    /\ result_map = <<>>
    /\ sorted_results = <<>>
    /\ provenance = <<>>
    /\ calls = <<>>
    /\ response = [status |-> "pending"]
    /\ backend = NoStore
    /\ previous = NoResponse
    /\ parked = NoContext
    /\ ServicesIdle

RequestSpec == InitRequest /\ [][NextRank]_vars

(* The repeated-request specification: the backends hold a fixed store, and
   the same request is served a second time once the first response is out *)

\* lists of n items of S
Stored(S, n) == [1..n -> S]

\* stores of at most cap records and rows over the given contents
Stores(contents, cap) ==
    UNION {[supermemory : Stored([content : contents], a),
            mem0 : Stored([content : contents], b),
            rows : Stored({r \in GraphRows("case-1") : r.m.content \in contents}, c),
            trail : TrailAnswers] :
           <<a, b, c>> \in {t \in (0..cap) \X (0..cap) \X (0..cap) : t[1] + t[2] + t[3] <= cap}}

\* a provider returns the first records it holds, at most as many as asked
TopOf(records, asked) == SubSeq(records, 1, Min(asked, Len(records)))

InitTwice ==
    /\ request \in [query : {"memo"}, entity : {"case-1"}, limit : 1..2,
                    include_provenance : BOOLEAN]
    /\ driver \in BOOLEAN
    /\ silent = {}
    /\ pc = "start"
    /\ semPc = "none"
    /\ graphPc = "none"
    /\ results = <<>>
    /\ semantic_results = <<>>
    /\ graph_results = <<>>
    /\ result_map = <<>>
    /\ sorted_results = <<>>
    /\ provenance = <<>>
    /\ calls = <<>>
    /\ response = [status |-> "pending"]
    /\ backend \in Stores(Contents, MaxStored)
    /\ previous = NoResponse
    /\ parked = NoContext
    /\ ServicesIdle

\* the route is called again with the same RAGQuery: hybrid_search starts
\* over with new locals
CallAgain ==
    /\ pc = "done"
    /\ previous = NoResponse
    /\ previous' = [status |-> "served", response |-> response, calls |-> calls]
    /\ pc' = "start"
    /\ semPc' = "none"
    /\ graphPc' = "none"
    /\ results' = <<>>
    /\ semantic_results' = <<>>
    /\ graph_results' = <<>>
    /\ result_map' = <<>>
    /\ sorted_results' = <<>>
    /\ provenance' = <<>>
    /\ calls' = <<>>
    /\ response' = [status |-> "pending"]
    /\ UNCHANGED <<request, driver, silent, backend, parked, services>>

NextTwice ==
    \/ CreateSemanticTask
    \/ CreateGraphTask
    \/ SemanticStart
    \/ SupermemoryAnswer({TopOf(backend.supermemory, SemanticLimit)})
    \/ Mem0Answer({TopOf(backend.mem0, SemanticLimit - Len(results))})
    \/ GraphStart
    \/ CypherAnswer({backend.rows})
    \/ AwaitSemantic
    \/ AwaitGraph
    \/ Merge
    \/ ProvenanceAnswer({backend.trail})
    \/ CallAgain

TwiceSpec == InitTwice /\ [][NextTwice]_vars

(* The two-request specification: a second request is in flight on the same
   event loop, against the same graph_rag and the same store. The variables
   hold the locals of the request whose coroutines run; the other's are parked *)

\* the locals of the request whose coroutines run
Context ==
    [request |-> request, pc |-> pc, semPc |-> semPc, graphPc |-> graphPc,
     results |-> results, semantic_results |-> semantic_results,
     graph_results |-> graph_results, result_map |-> result_map,
     sorted_results |-> sorted_results, provenance |-> provenance,
     response |-> response]

\* the locals of a request that has just been received
NewContext(limit) ==
    [request |-> [query |-> "memo", entity |-> "case-1", limit |-> limit,
                  include_provenance |-> FALSE],
     pc |-> "start", semPc |-> "none", graphPc |-> "none", results |-> <<>>,
     semantic_results |-> <<>>, graph_results |-> <<>>, result_map |-> <<>>,
     sorted_results |-> <<>>, provenance |-> <<>>,
     response |-> [status |-> "pending"]]

InitConcurrent ==
    /\ request = NewContext(1).request
    /\ driver = TRUE
    /\ silent = {}
    /\ pc = "start"
    /\ semPc = "none"
    /\ graphPc = "none"
    /\ results = <<>>
    /\ semantic_results = <<>>
    /\ graph_results = <<>>
    /\ result_map = <<>>
    /\ sorted_results = <<>>
    /\ provenance = <<>>
    /\ calls = <<>>
    /\ response = [status |-> "pending"]
    /\ backend \in {s \in Stores({"memo", "Memo"}, MaxShared) :
                        /\ s.trail = <<>>
                        /\ \A i \in 1..Len(s.rows) :
                               s.rows[i].custody = 0 /\ s.rows[i].path_length = 1}
    /\ previous = NoResponse
    /\ parked = NewContext(2)
    /\ ServicesIdle

\* the event loop turns to the other request: the running coroutine is at
\* an await (or has returned), where any ready coroutine may be resumed.
\* The loop is also taken to switch while requests.post holds the thread,
\* which allows more interleavings than the loop has
Switch ==
    /\ LoopYielded
    /\ parked.pc # "absent"
    /\ parked' = Context
    /\ request' = parked.request
    /\ pc' = parked.pc
    /\ semPc' = parked.semPc
    /\ graphPc' = parked.graphPc
    /\ results' = parked.results
    /\ semantic_results' = parked.semantic_results
    /\ graph_results' = parked.graph_results
    /\ result_map' = parked.result_map
    /\ sorted_results' = parked.sorted_results
    /\ provenance' = parked.provenance
    /\ response' = parked.response
    /\ UNCHANGED <<driver, silent, calls, backend, previous, services>>

NextConcurrent ==
    \/ CreateSemanticTask
    \/ CreateGraphTask
    \/ SemanticStart
    \/ SupermemoryAnswer({TopOf(backend.supermemory, SemanticLimit)})
    \/ Mem0Answer({TopOf(backend.mem0, SemanticLimit - Len(results))})
    \/ GraphStart
    \/ CypherAnswer({backend.rows})
    \/ AwaitSemantic
    \/ AwaitGraph
    \/ Merge
    \/ Switch

ConcurrentSpec == InitConcurrent /\ [][NextConcurrent]_vars

(* The supplied-score specification: the records the backends hold may
   carry a hybrid_score of their own *)

\* a hybrid_score field found on a backend record, above every score the
\* ranking can compute
SuppliedScore == 3 * Scale

\* backend records with and without a hybrid_score of their own
SuppliedRecords ==
    [content : {"memo", "Memo"}]
        \cup [content : {"memo", "Memo"}, hybrid_score : {SuppliedScore}]

\* stores of at most cap such records and rows
SuppliedStores(cap) ==
    UNION {[supermemory : Stored(SuppliedRecords, a),
            mem0 : Stored(SuppliedRecords, b),
            rows : Stored([m : SuppliedRecords, custody : CustodyCounts,
                           path_length : PathLengths], c),
            trail : {<<>>}] :
           <<a, b, c>> \in {t \in (0..cap) \X (0..cap) \X (0..cap) : t[1] + t[2] + t[3] <= cap}}

InitSupplied ==
    /\ request = [query |-> "memo", entity |-> "case-1", limit |-> 2,
                  include_provenance |-> FALSE]
    /\ driver = TRUE
    /\ silent = {}
    /\ pc = "start"
    /\ semPc = "none"
    /\ graphPc = "none"
    /\ results = <<>>
    /\ semantic_results = <<>>
    /\ graph_results = <<>>
    /\ result_map = <<>>
    /\ sorted_results = <<>>
    /\ provenance = <<>>
    /\ calls = <<>>
    /\ response = [status |-> "pending"]
    /\ backend \in SuppliedStores(MaxStored)
    /\ previous = NoResponse
    /\ parked = NoContext
    /\ ServicesIdle

NextSupplied ==
    \/ CreateSemanticTask
    \/ CreateGraphTask
    \/ SemanticStart
    \/ SupermemoryAnswer({TopOf(backend.supermemory, SemanticLimit)})
    \/ Mem0Answer({TopOf(backend.mem0, SemanticLimit - Len(results))})
    \/ GraphStart
    \/ CypherAnswer({backend.rows})
    \/ AwaitSemantic
    \/ AwaitGraph
    \/ Merge

SuppliedSpec == InitSupplied /\ [][NextSupplied]_vars

----------------------------------------------------------------------------
(* The memory lifecycle: MemoryAggregator.write_memory, the /memory/forget
   route and PolicyEngine.create_tombstone *)

Classifications == {"general", "privileged", "evidence", "sensitive"}
MemoryIds == {"m1", "test_123"}
Reasons == {"", "automated_test_cleanup"}
Users == {"system", "policy_engine"}
Times == {"2025-01-01T00:00:00"}

\* what Mem0Provider.write returns: the JSON of the response, with or
\* without an id, or {'error': ...}
Mem0WriteAnswers ==
    {[id |-> i] : i \in MemoryIds} \cup {[message |-> "ok"], [error |-> "failed"]}

\* what SuperMemoryProvider.write returns
SuperMemoryWriteAnswers == {[id |-> "s1"], [error |-> "failed"]}

\* what Neo4jClient.create_memory_node returns
Neo4jWriteAnswers == {[records |-> <<[memory_id |-> "n1"]>>],
                      [error |-> "No Neo4j connection"]}

\* the names an instance of MemoryAggregator answers to
MemoryAggregatorAttributes ==
    {"mem0", "supermemory", "neo4j", "policies",
     "_load_policies", "write_memory", "search_memory"}

\* the tombstone_policy sections a policy file can hold
TombstonePolicies ==
    {DefaultTombstonePolicy,
     [enabled |-> TRUE, require_reason |-> FALSE],
     [enabled |-> FALSE, require_reason |-> TRUE],
     [audit_trail |-> FALSE]}

\* MemoryAggregator.write_memory
WriteMemory ==
    /\ write_result = NoResult
    /\ \E classification \in Classifications,
          mem0_result \in Mem0WriteAnswers,
          supermemory_result \in SuperMemoryWriteAnswers,
          neo4j_result \in Neo4jWriteAnswers, timestamp \in Times :
          write_result' =
             [success   |-> TRUE,
              providers |-> [mem0 |-> mem0_result,
                             supermemory |-> supermemory_result,
                             neo4j |-> neo4j_result],
              metadata  |-> [entity |-> "test_entity_automated",
                             classification |-> classification,
                             timestamp |-> timestamp,
                             case_number |-> "1FDV-23-0001009"]]
    /\ UNCHANGED <<notLifecycle, tombstone_policy, forget_result, tombstone>>

\* the /memory/forget route, and lines 61-66 of the test, for a memory that
\* was written and whose Mem0 id is known: MemoryAggregator has no
\* forget_memory, the lookup raises AttributeError and the route answers
\* HTTP 500
ForgetMemory ==
    /\ forget_result = NoResult
    /\ "success" \in DOMAIN write_result
    /\ "id" \in DOMAIN write_result.providers.mem0
    /\ "forget_memory" \notin MemoryAggregatorAttributes
    /\ \E reason \in Reasons :
          forget_result' = [status    |-> "error",
                            code      |-> 500,
                            detail    |-> "AttributeError",
                            memory_id |-> write_result.providers.mem0.id,
                            reason    |-> reason]
    /\ UNCHANGED <<notLifecycle, tombstone_policy, write_result, tombstone>>

\* a tombstone that names the deleting user as the memory
create_tombstone_of_user(policy, memory_id, reason, user, now) ==
    IF ~Get(policy, "enabled", TRUE)
    THEN [tombstone |-> FALSE]
    ELSE IF Get(policy, "require_reason", TRUE) /\ reason = ""
    THEN [raised |-> "ValueError"]
    ELSE [original_id |-> user,
          deleted_at  |-> now,
          deleted_by  |-> user,
          reason      |-> reason,
          tombstone   |-> TRUE,
          audit_trail |-> Get(policy, "audit_trail", TRUE)]

\* PolicyEngine.create_tombstone
create_tombstone(policy, memory_id, reason, user, now) ==
    IF ~Get(policy, "enabled", TRUE)
    THEN [tombstone |-> FALSE]
    ELSE IF Get(policy, "require_reason", TRUE) /\ reason = ""
    THEN [raised |-> "ValueError"]
    ELSE [original_id |-> memory_id,
          deleted_at  |-> now,
          deleted_by  |-> user,
          reason      |-> reason,
          tombstone   |-> TRUE,
          audit_trail |-> Get(policy, "audit_trail", TRUE)]

\* a call of create_tombstone; the arguments are kept with the result
CreateTombstone ==
    /\ tombstone = NoResult
    /\ \E memory_id \in MemoryIds, reason \in Reasons, user \in Users, now \in Times :
          tombstone' = [memory_id |-> memory_id,
                        reason    |-> reason,
                        result    |-> create_tombstone(tombstone_policy, memory_id,
                                                       reason, user, now)]
    /\ UNCHANGED <<notLifecycle, tombstone_policy, write_result, forget_result>>

\* no retrieval request is in flight
RagIdle ==
    /\ request = [query |-> "memo", entity |-> NoEntity, limit |-> 1,
                  include_provenance |-> FALSE]
    /\ driver = FALSE
    /\ silent = {}
    /\ pc = "start"
    /\ semPc = "none"
    /\ graphPc = "none"
    /\ results = <<>>
    /\ semantic_results = <<>>
    /\ graph_results = <<>>
    /\ result_map = <<>>
    /\ sorted_results = <<>>
    /\ provenance = <<>>
    /\ calls = <<>>
    /\ response = [status |-> "pending"]
    /\ backend = NoStore
    /\ previous = NoResponse
    /\ parked = NoContext

InitLifecycle ==
    /\ RagIdle
    /\ AuditIdle
    /\ IngestIdle
    /\ CollectorIdle
    /\ tombstone_policy \in TombstonePolicies
    /\ write_result = NoResult
    /\ forget_result = NoResult
    /\ tombstone = NoResult

NextLifecycle ==
    \/ WriteMemory
    \/ ForgetMemory
    \/ CreateTombstone

LifecycleSpec == InitLifecycle /\ [][NextLifecycle]_vars

----------------------------------------------------------------------------
(* The audit trail: AuditTrail.create_audit_event and verify_merkle_chain *)

AuditOperations == {"write_memory", "forget_memory"}
AuditTimes == {"t1", "t2"}

\* payloads handed to create_audit_event; json.dumps raises TypeError on
\* the one that is not serialisable
AuditPayloads == {"{}", "{memory_id}", "not serialisable"}

\* entities handed to create_audit_event; AuditEvent(entity=None) fails
\* validation
AuditEntities == {"case-1", NoEntity}

\* hashlib.sha256(text).hexdigest(): equal texts give equal digests, and
\* the texts drawn here give pairwise different ones
Sha256(text) == [sha256 |-> text]

\* the `previous` of the first entry, the string '0'
NoPrevious == [literal |-> "0"]

\* an entry that links to the first entry of the log
MerkleEntryLinkedToFirst(log, hash, timestamp, operation) ==
    [hash      |-> hash,
     previous  |-> IF log # <<>> THEN log[1].hash ELSE NoPrevious,
     timestamp |-> timestamp,
     operation |-> operation]

\* lines 67-72: the entry appended to the log
MerkleEntry(log, hash, timestamp, operation) ==
    [hash      |-> hash,
     previous  |-> IF log # <<>> THEN log[Len(log)].hash ELSE NoPrevious,
     timestamp |-> timestamp,
     operation |-> operation]

\* AuditTrail.create_audit_event; an exception of json.dumps (line 47) or
\* of AuditEvent(...) (line 54) leaves before anything is stored
CreateAuditEvent ==
    /\ Len(audit_events) < MaxEvents
    /\ \E operation \in AuditOperations, entity \in AuditEntities,
          classification \in {"general", "evidence"},
          payload \in AuditPayloads, hashed_at \in AuditTimes, stamped_at \in AuditTimes :
          IF payload = "not serialisable" \/ entity = NoEntity
          THEN UNCHANGED <<merkle_log, audit_events>>
          ELSE LET payload_hash     == Sha256(payload)
                   attestation_hash == Sha256(<<operation, entity, payload_hash, hashed_at>>)
                   event == [timestamp        |-> stamped_at,
                             operation        |-> operation,
                             entity           |-> entity,
                             classification   |-> classification,
                             user             |-> "system",
                             payload_hash     |-> payload_hash,
                             chain_of_custody |-> classification \in {"evidence", "privileged"},
                             attestation_hash |-> attestation_hash]
               IN  /\ merkle_log' = Append(merkle_log,
                                           MerkleEntry(merkle_log, attestation_hash,
                                                       stamped_at, operation))
                   /\ audit_events' = Append(audit_events, event)
    /\ UNCHANGED notAudit

\* AuditTrail.verify_merkle_chain; broken_at_index counts from 0
verify_merkle_chain(log) ==
    IF log = <<>>
    THEN [valid |-> TRUE, length |-> 0]
    ELSE LET broken == {i \in 2..Len(log) : log[i].previous # log[i - 1].hash}
         IN  IF broken # {}
             THEN [valid           |-> FALSE,
                   broken_at_index |-> (CHOOSE i \in broken : \A j \in broken : i <= j) - 1,
                   length          |-> Len(log)]
             ELSE [valid       |-> TRUE,
                   length      |-> Len(log),
                   latest_hash |-> log[Len(log)].hash]

InitAudit ==
    /\ RagIdle
    /\ LifecycleIdle
    /\ AuditIdle
    /\ IngestIdle
    /\ CollectorIdle

NextAudit ==
    \/ CreateAuditEvent

AuditSpec == InitAudit /\ [][NextAudit]_vars

----------------------------------------------------------------------------
(* The ingestion pipeline: the /ingest/item and /ingest/bulk routes,
   IngestionPipeline.start_daemon and _process_queue *)

\* asyncio.Queue(maxsize=1000)
QueueMaxSize == 1000

\* the processing times kept for the average
KeptProcessingTimes == 100

\* n items put on the queue, each followed by queued += 1; put does not
\* suspend while the queue has room
Enqueue(n) ==
    /\ Len(ingest_queue) + n <= QueueMaxSize
    /\ ingest_queue' = ingest_queue \o [k \in 1..n |-> submitted + k]
    /\ ingest_stats' = [ingest_stats EXCEPT !.queued = @ + n]
    /\ submitted' = submitted + n

\* lines 155-156 and 182-183: start_daemon is added to the tasks run after
\* the response when the daemon is not running
AddStartTask ==
    background_tasks' = IF running THEN background_tasks ELSE background_tasks + 1

\* POST /ingest/item
IngestItem ==
    /\ submitted < MaxItems
    /\ AddStartTask
    /\ Enqueue(1)
    /\ UNCHANGED <<notIngest, running, processors, handled, start_calls>>

\* POST /ingest/bulk with n items
IngestBulk ==
    /\ \E n \in 0..(MaxItems - submitted) :
          /\ n = 0 => (~running /\ background_tasks + start_calls < MaxStartCalls)
          /\ Enqueue(n)
    /\ AddStartTask
    /\ UNCHANGED <<notIngest, running, processors, handled, start_calls>>

\* a start_daemon that creates the task without looking at `running`
StartDaemonUnguarded ==
    /\ start_calls' = start_calls + 1
    /\ running' = TRUE
    /\ processors' = Append(processors, [pc |-> "get", item |-> 0])

\* IngestionPipeline.start_daemon, lines 62-66; the coroutine has no await
StartDaemon ==
    /\ start_calls' = start_calls + 1
    /\ IF running
       THEN UNCHANGED <<running, processors>>
       ELSE /\ running' = TRUE
            /\ processors' = Append(processors, [pc |-> "get", item |-> 0])

\* a response has been sent and its background task runs
RunBackgroundTask ==
    /\ background_tasks > 0
    /\ background_tasks' = background_tasks - 1
    /\ StartDaemon
    /\ UNCHANGED <<notIngest, ingest_queue, ingest_stats, submitted, handled>>

\* start_daemon called by anything else
CallStartDaemon ==
    /\ start_calls + background_tasks < MaxStartCalls
    /\ StartDaemon
    /\ UNCHANGED <<notIngest, ingest_queue, ingest_stats, background_tasks, submitted,
                   handled>>

\* lines 75-76
TakeFromQueued == [ingest_stats EXCEPT !.queued = @ - 1, !.processing = @ + 1]

\* line 74: ingest_queue.get() returns the oldest item. Where wait_for runs
\* get() in a task of its own (Python up to 3.11) the processor is resumed
\* in a later turn of the event loop, and lines 75-76 run then; where
\* wait_for awaits get() in place (Python 3.12) they run in the same turn.
\* With the queue empty the TimeoutError of line 93 changes nothing
ProcessorGet(i) ==
    /\ processors[i].pc = "get"
    /\ ingest_queue # <<>>
    /\ ingest_queue' = Tail(ingest_queue)
    /\ \/ /\ processors' = [processors EXCEPT ![i] = [pc |-> "got", item |-> Head(ingest_queue)]]
          /\ UNCHANGED ingest_stats
       \/ /\ processors' = [processors EXCEPT ![i] =
                                [pc |-> "processing", item |-> Head(ingest_queue)]]
          /\ ingest_stats' = TakeFromQueued
    /\ UNCHANGED <<notIngest, running, background_tasks, submitted, handled, start_calls>>

\* lines 75-78 after the processor is resumed with its item
ProcessorResume(i) ==
    /\ processors[i].pc = "got"
    /\ processors' = [processors EXCEPT ![i].pc = "processing"]
    /\ ingest_stats' = TakeFromQueued
    /\ UNCHANGED <<notIngest, ingest_queue, running, background_tasks, submitted, handled,
                   start_calls>>

\* lines 81-91 when _process_item returns, lines 95-98 when it raises
ProcessorFinish(i) ==
    /\ processors[i].pc = "processing"
    /\ processors' = [processors EXCEPT ![i] = [pc |-> "get", item |-> 0]]
    /\ handled' = Append(handled, processors[i].item)
    /\ \E raised \in BOOLEAN :
          ingest_stats' =
             IF raised
             THEN [ingest_stats EXCEPT !.processing = @ - 1, !.failed = @ + 1]
             ELSE [ingest_stats EXCEPT !.processing = @ - 1, !.completed = @ + 1,
                                       !.processing_times =
                                          IF @ + 1 > KeptProcessingTimes
                                          THEN KeptProcessingTimes ELSE @ + 1]
    /\ UNCHANGED <<notIngest, ingest_queue, running, background_tasks, submitted,
                   start_calls>>

InitIngest ==
    /\ RagIdle
    /\ LifecycleIdle
    /\ AuditIdle
    /\ IngestIdle
    /\ CollectorIdle

NextIngest ==
    \/ IngestItem
    \/ IngestBulk
    \/ RunBackgroundTask
    \/ CallStartDaemon
    \/ \E i \in 1..Len(processors) : ProcessorGet(i)
    \/ \E i \in 1..Len(processors) : ProcessorResume(i)
    \/ \E i \in 1..Len(processors) : ProcessorFinish(i)

IngestSpec == InitIngest /\ [][NextIngest]_vars

----------------------------------------------------------------------------
(* The metrics collector: record_latency, increment_counter, set_gauge.  A
   data point (timestamp, value) is modelled by its value *)

\* self.max_data_points
max_data_points == 1000

\* the literal of lines 53-54
HistogramKept == 1000

\* f"{metric_name}_histogram" and f"{metric_name}_total"
HistogramOf == [n \in {"memory_write_latency"} |-> "memory_write_latency_histogram"]
TotalOf == [n \in CounterNames |-> "memory_operations_total"]

\* deque.popleft() when the series is over max_data_points
Trimmed(series) == IF Len(series) > max_data_points THEN Tail(series) ELSE series

\* values[-1000:] when the list is over 1000
LastKept(values) ==
    IF Len(values) > HistogramKept
    THEN SubSeq(values, Len(values) - HistogramKept + 1, Len(values))
    ELSE values

\* MetricsCollector.record_latency
RecordLatency ==
    /\ timed_calls < MaxTimedCalls
    /\ timed_calls' = timed_calls + 1
    /\ \E metric_name \in DOMAIN HistogramOf, latency_ms \in {5, 250} :
          /\ metrics' = [metrics EXCEPT ![metric_name] = Trimmed(Append(@, latency_ms))]
          /\ histograms' = [histograms EXCEPT ![HistogramOf[metric_name]] =
                                LastKept(Append(@, latency_ms))]
    /\ UNCHANGED <<notCollector, counters, gauges>>

\* MetricsCollector.increment_counter; the calls are counted up to the one
\* that takes the series past max_data_points
IncrementCounter ==
    /\ \E metric_name \in CounterNames, value \in {1} :
          /\ Len(metrics[TotalOf[metric_name]]) <= max_data_points
          /\ counters' = [counters EXCEPT ![metric_name] = @ + value]
          /\ metrics' = [metrics EXCEPT ![TotalOf[metric_name]] =
                             Append(@, counters[metric_name] + value)]
    /\ UNCHANGED <<notCollector, gauges, histograms, timed_calls>>

\* MetricsCollector.set_gauge
SetGauge ==
    /\ timed_calls < MaxTimedCalls
    /\ timed_calls' = timed_calls + 1
    /\ \E metric_name \in GaugeNames, value \in {7} :
          /\ gauges' = [gauges EXCEPT ![metric_name] = value]
          /\ metrics' = [metrics EXCEPT ![metric_name] = Trimmed(Append(@, value))]
    /\ UNCHANGED <<notCollector, counters, histograms>>

InitCollector ==
    /\ RagIdle
    /\ LifecycleIdle
    /\ AuditIdle
    /\ IngestIdle
    /\ CollectorIdle

NextCollector ==
    \/ RecordLatency
    \/ IncrementCounter
    \/ SetGauge

CollectorSpec == InitCollector /\ [][NextCollector]_vars

\* every step that is enabled is eventually taken: the event loop runs each
\* ready task, and a backend that is not silent answers
FairSpec == Spec /\ WF_vars(Next)

----------------------------------------------------------------------------
(* Properties of hybrid_search *)

Responded == response.status = "ok"

\* contents of the records of a sequence
ContentsOf(rs) == {rs[i].content : i \in 1..Len(rs)}

\* the entries of a sequence that carry content c
WithContent(rs, c) == {i \in 1..Len(rs) : rs[i].content = c}

\* the larger of two numbers
Max(a, b) == IF a > b THEN a ELSE b

\* C1: with limit >= 1 the returned list has at most `limit` entries, and it
\* is empty only if the semantic adapter and the graph adapter both returned
\* no records
C1_LengthWithinLimit ==
    (Responded /\ request.limit >= 1) =>
        /\ Len(response.results) <= request.limit
        /\ (response.results = <<>> =>
                semantic_results = <<>> /\ graph_results = <<>>)

\* C1 witness: a response cut down to the limit
C1_Witness ==
    /\ Responded
    /\ request.limit >= 1
    /\ Len(response.results) = request.limit
    /\ Len(result_map) > request.limit

\* C2: content returned by both adapters has exactly one merged entry, whose
\* score is semantic*0.6 + graph*0.4 for a semantic and a graph record of
\* that content, and which carries the path length and custody count of that
\* graph record
C2_SharedContentBlended ==
    Responded =>
        \A c \in ContentsOf(semantic_results) \cap ContentsOf(graph_results) :
            LET merged == Values(result_map)
            IN  /\ Cardinality(WithContent(merged, c)) = 1
                /\ \A e \in WithContent(merged, c) :
                      \E i \in WithContent(semantic_results, c),
                         j \in WithContent(graph_results, c) :
                          /\ merged[e].hybrid_score =
                                Weighted(semantic_results[i].semantic_score, SemanticWeight)
                                  + Weighted(graph_results[j].graph_score, GraphWeight)
                          /\ merged[e].path_length = graph_results[j].path_length
                          /\ merged[e].custody_events = graph_results[j].custody_events

\* C3: a request with limit <= 0 is answered with a validation error and no
\* backend is called for it
C3_NonPositiveLimitRejected ==
    request.limit <= 0 =>
        /\ calls = <<>>
        /\ (pc = "done" => response.status = "validation_error")

\* C4: both tasks are created before either is awaited, the merge starts
\* only after both have completed, and a task once created moves only by
\* its own steps: nothing cancels it when the other ends first
TasksDispatched == semPc # "none" /\ graphPc # "none"

MergeAfterJoin ==
    /\ (pc \in {"await_semantic", "await_graph", "merge", "await_provenance"}
            => TasksDispatched)
    /\ ((pc \in {"merge", "await_provenance"} \/ Responded)
            => semPc = "done" /\ graphPc = "done")

OwnSteps ==
    /\ (semPc' # semPc =>
            <<semPc, semPc'>> \in {<<"none", "scheduled">>,
                                   <<"scheduled", "supermemory_wait">>,
                                   <<"supermemory_wait", "mem0_wait">>,
                                   <<"supermemory_wait", "done">>,
                                   <<"supermemory_wait", "failed">>,
                                   <<"mem0_wait", "done">>,
                                   <<"mem0_wait", "failed">>})
    /\ (graphPc' # graphPc =>
            <<graphPc, graphPc'>> \in {<<"none", "scheduled">>,
                                       <<"scheduled", "cypher_wait">>,
                                       <<"scheduled", "done">>,
                                       <<"cypher_wait", "done">>,
                                       <<"cypher_wait", "failed">>})

C4_ForkJoin == [](MergeAfterJoin) /\ [][OwnSteps]_vars

\* C4 witness: the merge is about to start after graph_task was still
\* waiting for Neo4j when semantic_task had ended
C4_Witness ==
    /\ pc = "merge"
    /\ calls # <<>>
    /\ calls[Len(calls)].to = "neo4j"
    /\ Len(semantic_results) > 0
    /\ Len(graph_results) > 0

\* C5: every request is eventually answered, also when a backend never
\* answers
C5_AlwaysAnswered == <>(pc = "done")

\* C6: hybrid_score never increases from one returned entry to the next
C6_ScoresNonIncreasing ==
    Responded =>
        \A i, j \in 1..Len(response.results) :
            i < j => response.results[i].hybrid_score >= response.results[j].hybrid_score

\* C6 witness: a returned list whose order differs from the order of insertion
C6_Witness ==
    /\ Responded
    /\ Len(response.results) >= 2
    /\ response.results # Slice(Values(result_map), request.limit)
    /\ response.results[1].hybrid_score > response.results[2].hybrid_score

\* C7: an entry whose content no semantic provider returned scores
\* graph*0.4 + 0.3 for a graph record of that content
C7_GraphOnlyScore ==
    Responded =>
        \A c \in ContentsOf(graph_results) \ ContentsOf(semantic_results) :
            LET merged == Values(result_map)
            IN  \A e \in WithContent(merged, c) :
                  \E j \in WithContent(graph_results, c) :
                      merged[e].hybrid_score =
                          Weighted(graph_results[j].graph_score, GraphWeight) + GraphOnlyBase

\* C8: records are merged exactly when their content is equal: every
\* content the adapters returned has one merged entry of its own, whatever
\* other contents differ from it only by case or blanks, and no returned
\* list holds a content twice
C8_MergedIffEqualContent ==
    Responded =>
        LET merged == Values(result_map)
        IN  /\ ContentsOf(merged) = ContentsOf(semantic_results) \cup ContentsOf(graph_results)
            /\ \A c \in ContentsOf(merged) : Cardinality(WithContent(merged, c)) = 1
            /\ \A c \in ContentsOf(response.results) :
                  Cardinality(WithContent(response.results, c)) = 1

\* C8 witness: two contents that differ only by case stay apart while a
\* content returned by both adapters is merged into one entry
C8_Witness ==
    /\ Responded
    /\ {"memo", "Memo"} \subseteq ContentsOf(Values(result_map))
    /\ "memo" \in ContentsOf(semantic_results) \cap ContentsOf(graph_results)
    /\ Len(result_map) < Len(semantic_results) + Len(graph_results)

\* C9: the i-th semantic record (from 0) scores max(0, 1.0 - i*0.1)
C9_RankScoreFloored ==
    \A i \in 1..Len(semantic_results) :
        semantic_results[i].semantic_score = Max(0, Scale - (i - 1) * RankStep)

SingleSourceScored(rs) ==
    \A k \in 1..Len(rs) :
        IF graph_results = <<>>
        THEN /\ rs[k].content \in ContentsOf(semantic_results)
             /\ DOMAIN rs[k].signals = {"semantic"}
             /\ rs[k].hybrid_score = Weighted(rs[k].signals.semantic, SemanticWeight)
        ELSE /\ rs[k].content \in ContentsOf(graph_results)
             /\ DOMAIN rs[k].signals = {"graph"}
             /\ rs[k].hybrid_score = Weighted(rs[k].signals.graph, GraphWeight) + GraphOnlyBase

OneSourceEmpty ==
    /\ semPc = "done"
    /\ graphPc = "done"
    /\ (semantic_results = <<>>) # (graph_results = <<>>)

C11_OneSourceDown ==
    (pc = "done" /\ OneSourceEmpty) =>
        /\ Responded
        /\ SingleSourceScored(response.results)

\* C13: Mem0 is called exactly when SuperMemory returned fewer records than
\* semantic_search was asked for, it is asked for the shortfall, and the
\* adapter returns the primary records followed by the secondary ones
StripScores(rs) == [i \in 1..Len(rs) |-> [content |-> rs[i].content]]

FallbackStep ==
    /\ (semPc = "supermemory_wait" /\ semPc' # semPc) =>
          /\ (semPc' = "mem0_wait") = (Len(results') < SemanticLimit)
          /\ (semPc' = "mem0_wait" =>
                calls' = Append(calls, [to |-> "mem0",
                                        limit |-> SemanticLimit - Len(results')]))
          /\ (semPc' # "mem0_wait" => calls' = calls)
          /\ (semPc' = "done" => StripScores(semantic_results') = results')
    /\ (semPc = "mem0_wait" /\ semPc' = "done") =>
          /\ SubSeq(results', 1, Len(results)) = results
          /\ StripScores(semantic_results') = results'
          /\ calls' = calls

C13_FallbackForShortfall == [][FallbackStep]_vars

\* C13 witness: both providers contributed, the primary record first
C13_Witness ==
    /\ semPc = "done"
    /\ Len(calls) >= 2
    /\ calls[2].to = "mem0"
    /\ calls[2].limit = SemanticLimit - 1
    /\ Len(semantic_results) = 2
    /\ semantic_results[1].content # semantic_results[2].content

\* C14: the provenance query is issued only when include_provenance is set
\* and entity is neither None nor empty; without such an entity the response
\* carries an empty provenance list
ProvenanceCalls == {i \in 1..Len(calls) : calls[i].to = "neo4j" /\ calls[i].query = "provenance"}

C14_ProvenanceOnlyWithEntity ==
    /\ ((ProvenanceCalls # {} \/ pc = "await_provenance")
            => request.include_provenance /\ request.entity \notin {NoEntity, ""})
    /\ ((Responded /\ request.entity \in {NoEntity, ""}) => response.provenance = <<>>)

\* C14 witness: a response to a request that asks for provenance and names
\* no entity, served with a graph connection
C14_Witness ==
    /\ Responded
    /\ driver
    /\ request.include_provenance
    /\ request.entity = ""
    /\ response.results # <<>>

\* C16: entries of equal hybrid_score keep the insertion order of the merge
\* map, in which the contents found by the semantic adapter come first, in
\* semantic rank order, and the contents found by the graph adapter alone
\* follow in graph order; the cut to `limit` is made after this ordering
FirstIndex(rs, c) == CHOOSE i \in WithContent(rs, c) : \A j \in WithContent(rs, c) : i <= j

\* position of content c in the merge map
MapPosition(c) == FirstIndex(Values(result_map), c)

\* entry a is ranked before entry b
RankedBefore(a, b) ==
    \/ a.hybrid_score > b.hybrid_score
    \/ a.hybrid_score = b.hybrid_score /\ MapPosition(a.content) < MapPosition(b.content)

InsertionOrder ==
    \A a, b \in ContentsOf(Values(result_map)) :
        LET sem == ContentsOf(semantic_results)
        IN  MapPosition(a) < MapPosition(b) <=>
              \/ a \in sem /\ b \notin sem
              \/ a \in sem /\ b \in sem
                   /\ FirstIndex(semantic_results, a) < FirstIndex(semantic_results, b)
              \/ a \notin sem /\ b \notin sem
                   /\ FirstIndex(graph_results, a) < FirstIndex(graph_results, b)

C16_TiesKeepInsertionOrder ==
    Responded =>
        LET rs     == response.results
            merged == Values(result_map)
        IN  /\ InsertionOrder
            /\ \A i, j \in 1..Len(rs) : i < j => RankedBefore(rs[i], rs[j])
            /\ \A k \in 1..Len(merged) :
                  merged[k].content \notin ContentsOf(rs) =>
                      \A i \in 1..Len(rs) : RankedBefore(rs[i], merged[k])

\* C16 witness: two entries tie and the cut to `limit` falls between them
C16_Witness ==
    /\ Responded
    /\ response.results # <<>>
    /\ \E k \in 1..Len(result_map) :
          /\ result_map[k].value.content \notin ContentsOf(response.results)
          /\ result_map[k].value.hybrid_score =
                response.results[Len(response.results)].hybrid_score

\* C19: an entry whose content the graph adapter did not return scores
\* semantic*0.6, where semantic is the rank score of the first semantic
\* record of that content, and that score is its only signal
C19_SemanticOnlyScore ==
    Responded =>
        \A c \in ContentsOf(semantic_results) \ ContentsOf(graph_results) :
            LET e     == Values(result_map)[MapPosition(c)]
                first == semantic_results[FirstIndex(semantic_results, c)]
            IN  /\ e.signals = [semantic |-> first.semantic_score]
                /\ e.hybrid_score * WeightDenominator = first.semantic_score * SemanticWeight

\* C19 witness: the semantic adapter returned a content twice and the graph
\* adapter did not return it
C19_Witness ==
    /\ Responded
    /\ \E c \in ContentsOf(semantic_results) \ ContentsOf(graph_results) :
          /\ Cardinality(WithContent(semantic_results, c)) = 2
          /\ c \in ContentsOf(response.results)

\* C20: a graph record scores 1/(path_length + 1), plus 0.2 exactly when it
\* has at least one custody event
C20_GraphScoreFormula ==
    \A i \in 1..Len(graph_results) :
        LET r     == graph_results[i]
            bonus == IF r.custody_events >= 1 THEN CustodyBoost ELSE 0
        IN  (r.graph_score - bonus) * (r.path_length + 1) = Scale

\* C20 witness: a record with a custody event at path length 1 and one
\* without at path length 3
C20_Witness ==
    /\ graphPc = "done"
    /\ \E i, j \in 1..Len(graph_results) :
          /\ graph_results[i].custody_events = 1
          /\ graph_results[i].path_length = 1
          /\ graph_results[j].custody_events = 0
          /\ graph_results[j].path_length = HybridDepth

\* C12: the graph search of a request is issued with the max_graph_depth of
\* that request
SearchCalls == {i \in 1..Len(calls) : calls[i].to = "neo4j" /\ calls[i].query = "search"}

C12_DepthFromRequest ==
    \A i \in SearchCalls : calls[i].depth = request.max_graph_depth

\* C15: a request with an empty query text is answered with a validation
\* error and no backend is called for it
C15_EmptyQueryRejected ==
    request.query = "" =>
        /\ calls = <<>>
        /\ (pc = "done" => response.status = "validation_error")

\* C17: the second response to a request served twice against the same store
\* is the first one: same ordered results with their scores and path and
\* custody fields, same provenance, same confidence and result counts
C17_SameResponseTwice ==
    (previous.status = "served" /\ pc = "done") => response = previous.response

\* C17 witness: two results from both sources and a provenance trail, served
\* twice with the searches started in a different order
C17_Witness ==
    /\ previous.status = "served"
    /\ pc = "done"
    /\ Responded
    /\ Len(response.results) >= 2
    /\ response.result_counts.semantic >= 1
    /\ response.result_counts.graph >= 1
    /\ response.provenance # <<>>
    /\ calls[1].to # previous.calls[1].to

\* what semantic_search returns for a request served alone against the store
SoloSemantic(req) ==
    LET asked     == req.limit * 2
        primary   == TopOf(backend.supermemory, asked)
        secondary == IF Len(primary) < asked
                     THEN TopOf(backend.mem0, asked - Len(primary))
                     ELSE <<>>
    IN  AddSemanticScores(primary \o secondary)

\* what graph_search returns for a request served alone against the store
SoloGraph == IF driver THEN GraphResults(backend.rows) ELSE <<>>

\* the response is the one the request gets when served alone: its own two
\* lists merged into a map that starts empty, ranked and counted
AsIfAlone(req, resp) ==
    LET sem    == SoloSemantic(req)
        ranked == Ranked(FoldGraph(FoldSemantic(<<>>, sem), SoloGraph), req.limit)
    IN  /\ resp.results = ranked
        /\ resp.confidence_scores.avg_confidence = AvgConfidence(ranked)
        /\ resp.result_counts =
              [semantic |-> Len(sem), graph |-> Len(SoloGraph), hybrid |-> Len(ranked)]

\* C18: of two requests served on one event loop, whatever the order of
\* their backend calls and merges, each gets the results, scores and counts
\* it gets when served alone against the same store
C18_NoInterference ==
    /\ Responded => AsIfAlone(request, response)
    /\ parked.response.status = "ok" => AsIfAlone(parked.request, parked.response)

\* C18 witness: both requests answered with different results, the second
\* one's semantic search having started before the first one's graph search
C18_Witness ==
    /\ Responded
    /\ parked.response.status = "ok"
    /\ response.results # parked.response.results
    /\ response.results # <<>>
    /\ parked.response.results # <<>>
    /\ response.result_counts.graph >= 1
    /\ calls[1].to = "supermemory"
    /\ calls[2].to = "supermemory"

\* the sum of the hybrid scores of the first n results of the response
RECURSIVE ReturnedTotal(_)
ReturnedTotal(n) ==
    IF n = 0 THEN 0 ELSE response.results[n].hybrid_score + ReturnedTotal(n - 1)

\* C21: avg_confidence of a response is the arithmetic mean of hybrid_score
\* over the results it returns, which are already cut to the limit, and 0
\* when it returns none
C21_MeanOfReturned ==
    Responded =>
        LET avg == response.confidence_scores.avg_confidence
            n   == Len(response.results)
        IN  /\ avg.den > 0
            /\ IF n = 0
               THEN avg.num = 0
               ELSE avg.num * n = ReturnedTotal(n) * avg.den

\* C21 witness: the map holds more entries than the limit lets through, and
\* the two results returned differ in score
C21_Witness ==
    /\ Responded
    /\ Len(result_map) > Len(response.results)
    /\ Len(response.results) = 2
    /\ response.results[1].hybrid_score > response.results[2].hybrid_score

\* C22: without a graph connection graph_search ends with the empty list,
\* raises nothing and sends no query to the graph backend
C22_NoDriverNoQuery ==
    ~driver =>
        /\ SearchCalls = {}
        /\ graphPc \notin {"cypher_wait", "failed"}
        /\ graph_results = <<>>

\* C22 witness: the graph search of a request that names an entity has
\* returned without a connection, and the response carries the semantic
\* results
C22_Witness ==
    /\ ~driver
    /\ graphPc = "done"
    /\ Truthy(request.entity)
    /\ Responded
    /\ response.results # <<>>

FromSignals(signals) ==
    (IF "semantic" \in DOMAIN signals THEN Weighted(signals.semantic, SemanticWeight) ELSE 0)
        + (IF "graph" \in DOMAIN signals THEN Weighted(signals.graph, GraphWeight) ELSE 0)
        + (IF DOMAIN signals = {"graph"} THEN GraphOnlyBase ELSE 0)

C25_ForgetReturnsForgotten ==
    (forget_result # NoResult /\ forget_result.reason # "") =>
        /\ "forgotten" \in DOMAIN forget_result
        /\ forget_result.forgotten = TRUE

\* a call of create_tombstone was made with a reason that is not empty
TombstoneAsked == tombstone # NoResult /\ tombstone.reason # ""

\* C26 as claimed: create_tombstone with a reason that is not empty returns
\* a record whose original_id is the memory id given
C26_TombstoneNamesMemory ==
    TombstoneAsked =>
        /\ "original_id" \in DOMAIN tombstone.result
        /\ tombstone.result.original_id = tombstone.memory_id

\* C26 amended: where the tombstone policy is enabled, create_tombstone with
\* a reason that is not empty returns a record whose original_id is the
\* memory id given
C26_TombstoneNamesMemoryWhenEnabled ==
    (TombstoneAsked /\ Get(tombstone_policy, "enabled", TRUE)) =>
        /\ "original_id" \in DOMAIN tombstone.result
        /\ tombstone.result.original_id = tombstone.memory_id

\* C26 witness: the call of the test, under a policy section that leaves
\* `enabled` out
C26_Witness ==
    /\ TombstoneAsked
    /\ "enabled" \notin DOMAIN tombstone_policy
    /\ tombstone.memory_id = "test_123"
    /\ tombstone.result.tombstone = TRUE

\* C27: the Merkle log holds one entry per event logged; the first entry's
\* previous is '0', every later entry's previous is the hash of the entry
\* before it, and verify_merkle_chain reports the chain valid with the
\* number of events logged as its length
C27_MerkleChain ==
    /\ Len(merkle_log) = Len(audit_events)
    /\ (merkle_log # <<>> => merkle_log[1].previous = NoPrevious)
    /\ \A i \in 2..Len(merkle_log) : merkle_log[i].previous = merkle_log[i - 1].hash
    /\ \A i \in 1..Len(merkle_log) : merkle_log[i].hash = audit_events[i].attestation_hash
    /\ verify_merkle_chain(merkle_log).valid
    /\ verify_merkle_chain(merkle_log).length = Len(audit_events)

\* C27 witness: three events with three different hashes are logged
C27_Witness ==
    /\ Len(audit_events) = 3
    /\ Cardinality({merkle_log[i].hash : i \in 1..Len(merkle_log)}) = 3

\* C28: the counters queued, processing, completed and failed are never
\* negative, processing is at most 1, queued is the number of items waiting
\* in the queue, and the four add up to the number of items submitted
C28_CountersMatchQueue ==
    /\ ingest_stats.queued >= 0
    /\ ingest_stats.processing >= 0
    /\ ingest_stats.completed >= 0
    /\ ingest_stats.failed >= 0
    /\ ingest_stats.processing <= 1
    /\ ingest_stats.queued = Len(ingest_queue)
    /\ ingest_stats.queued + ingest_stats.processing + ingest_stats.completed
          + ingest_stats.failed = submitted

\* C29: at most one _process_queue task is ever created, whatever the
\* number of requests that found the daemon not running and of calls of
\* start_daemon, and no item is taken twice
C29_OneProcessor ==
    /\ Len(processors) <= 1
    /\ running <=> Len(processors) = 1
    /\ \A i, j \in 1..Len(handled) : i # j => handled[i] # handled[j]

\* C29 witness: two requests found the daemon not running, start_daemon has
\* run three times, and two items are through
C29_Witness ==
    /\ start_calls >= 3
    /\ background_tasks = 0
    /\ submitted >= 2
    /\ Len(handled) >= 2
    /\ Len(processors) = 1

\* C30: every time series of the collector holds at most max_data_points
\* data points, and every latency histogram at most 1000 values
C30_SeriesBounded ==
    /\ \A n \in DOMAIN metrics : Len(metrics[n]) <= max_data_points
    /\ \A n \in DOMAIN histograms : Len(histograms[n]) <= HistogramKept

====
